---- MODULE Spec2Model ----
(***************************************************************************)
(* ConversationManager of src/utils/conversation_manager.py: a rolling     *)
(* window of role-tagged messages with ingest-time content summarization   *)
(* and a running textual summary of the messages folded out of the window. *)
(*                                                                         *)
(* A Python str is a sequence of one-character strings; a message is a     *)
(* record [type, content, name]; Python's None is the value None below.    *)
(***************************************************************************)
EXTENDS Integers, Sequences, FiniteSets, TLC

\* ------------------------------------------------------------------ bounds
MaxOps == 3            \* add_message / clear calls in one behaviour
MaxMaxMessages == 3    \* max_messages ranges over 1..MaxMaxMessages
MaxPreserve == 2       \* preserve_recent ranges over 0..MaxPreserve
ShortLen == 3          \* payload lengths of the messages that are added
MidLen == 200
LongLen == 603
MaxCount == 1          \* get_recent_messages(count), count in -1..MaxCount
MaxPureLen == 6        \* truncate_content: len(content), max_length in 0..MaxPureLen
MaxPureOps == 2        \* calls of the two string functions in one behaviour
MaxConcCalls == 3      \* add_message calls made by the two threads together

\* -------------------------------------------------------- Python values
\* None is a one-element sequence holding a four-character string, so it is
\* different from every str (whose elements are single characters).
None == << "None" >>

Min(a, b) == IF a < b THEN a ELSE b
Max(a, b) == IF a > b THEN a ELSE b

\* index normalisation of a slice bound: negative counts from the end
NormIdx(i, n) == IF i < 0 THEN Max(i + n, 0) ELSE Min(i, n)
\* s[i:]
SliceFrom(s, i) == SubSeq(s, NormIdx(i, Len(s)) + 1, Len(s))
\* s[:j]
SliceTo(s, j) == SubSeq(s, 1, NormIdx(j, Len(s)))

\* Python truthiness of an Optional[str]: None and "" are falsy
Truthy(s) == s # None /\ s # << >>

\* needle in haystack (substring test on strs)
Contains(haystack, needle) ==
    \E i \in 0..(Len(haystack) - Len(needle)) :
        SubSeq(haystack, i + 1, i + Len(needle)) = needle

StartsWith(s, p) == Len(p) <= Len(s) /\ SubSeq(s, 1, Len(p)) = p
EndsWith(s, p) == Len(p) <= Len(s) /\ SubSeq(s, Len(s) - Len(p) + 1, Len(s)) = p

\* ------------------------------------------------------ string literals
PREVIOUS_PREFIX ==
    << "P", "r", "e", "v", "i", "o", "u", "s", " ", "c", "o", "n", "v", "e", "r", "s", "a", "t", "i", "o", "n", " ", "s", "u", "m", "m", "a", "r", "y", ":", " " >>
USER_PREFIX ==
    << "U", "s", "e", "r", ":", " " >>
COLON_SPACE ==
    << ":", " " >>
NEWLINE ==
    << "\n" >>
ELLIPSIS ==
    << ".", ".", "." >>
SUMMARIZED_NOTICE ==
    << "\n", "\n", ".", ".", ".", "C", "o", "n", "t", "e", "n", "t", " ", "s", "u", "m", "m", "a", "r", "i", "z", "e", "d", ".", ".", ".", "\n", "\n" >>
CONTENT_SUMMARIZED ==
    << "C", "o", "n", "t", "e", "n", "t", " ", "s", "u", "m", "m", "a", "r", "i", "z", "e", "d" >>
truncation_notice ==
    << "\n", ".", ".", ".", "C", "o", "n", "t", "e", "n", "t", " ", "t", "r", "u", "n", "c", "a", "t", "e", "d", ".", ".", ".", "\n" >>
SUMMARY_HEADER ==
    << "C", "o", "n", "v", "e", "r", "s", "a", "t", "i", "o", "n", " ", "S", "u", "m", "m", "a", "r", "y", ":", "\n" >>
NONE_STR ==
    << "N", "o", "n", "e" >>
ASSISTANT ==
    << "A", "s", "s", "i", "s", "t", "a", "n", "t" >>
RESEARCHER ==
    << "r", "e", "s", "e", "a", "r", "c", "h", "e", "r" >>

\* str(x) as an f-string renders it: None is rendered as the text "None"
Format(x) == IF x = None THEN NONE_STR ELSE x

\* ------------------------------------------------------------- messages
SystemMessage(content, name) == [type |-> "system", content |-> content, name |-> name]
HumanMessage(content, name) == [type |-> "human", content |-> content, name |-> name]
AIMessage(content, name) == [type |-> "ai", content |-> content, name |-> name]

\* getattr(msg, 'name', default): every message object has the attribute
\* name (None when no name was given), so the default is never taken
GetattrName(msg, default) == msg.name

\* ------------------------------------------------------ program constants
MAX_CONTENT_LENGTH == 900000
MAX_MESSAGES_BEFORE_SUMMARY == 30
SUMMARY_PRESERVE_RECENT == 5
SUMMARY_CONTENT_THRESHOLD == 500
SUMMARY_CHUNK == 200
LINE_CONTENT_LIMIT == 200

\* mutant: the threshold test is strict, len(content) < 500
CreateSummaryForContent_Strict(content) ==
    IF Len(content) < SUMMARY_CONTENT_THRESHOLD
    THEN content
    ELSE SliceTo(content, SUMMARY_CHUNK) \o SUMMARIZED_NOTICE
             \o SliceFrom(content, 0 - SUMMARY_CHUNK)

\* _create_summary_for_content(content)
CreateSummaryForContent(content) ==
    IF Len(content) <= SUMMARY_CONTENT_THRESHOLD
    THEN content
    ELSE LET beginning == SliceTo(content, SUMMARY_CHUNK)
             ending == SliceFrom(content, 0 - SUMMARY_CHUNK)
         IN  beginning \o SUMMARIZED_NOTICE \o ending

\* mutant: the length test is strict, len(content) < max_length
truncate_content_Strict(content, max_length) ==
    IF Len(content) < max_length
    THEN content
    ELSE LET half_length == max_length \div 2
         IN  SliceTo(content, half_length) \o truncation_notice
                 \o SliceFrom(content, 0 - half_length)

\* truncate_content(content, max_length)
truncate_content(content, max_length) ==
    IF Len(content) <= max_length
    THEN content
    ELSE LET half_length == max_length \div 2
         IN  SliceTo(content, half_length) \o truncation_notice
                 \o SliceFrom(content, 0 - half_length)

\* ------------------------------------------------------------ the fold
\* mutant: the slice ends at a fixed -1, messages[:-1]
ToSummarize_AllButLast(msgs, pr) == SliceTo(msgs, 0 - 1)

\* messages[:-preserve_recent]
ToSummarize(msgs, pr) == SliceTo(msgs, 0 - pr)

\* mutant: keeps the oldest messages, messages[:preserve_recent]
RecentMessages_Oldest(msgs, pr) == SliceTo(msgs, pr)

\* messages[-preserve_recent:]
RecentMessages(msgs, pr) == SliceFrom(msgs, 0 - pr)

\* msg.content[:200] + "..." if len(msg.content) > 200 else msg.content
LineContent(content) ==
    IF Len(content) > LINE_CONTENT_LIMIT
    THEN SliceTo(content, LINE_CONTENT_LIMIT) \o ELLIPSIS
    ELSE content

\* mutant: Human messages are skipped like System messages
SummaryLine_SkipHuman(msg) ==
    CASE msg.type = "system" -> << >>
      [] msg.type = "human"  -> << >>
      [] msg.type = "ai"     ->
            << Format(GetattrName(msg, ASSISTANT)) \o COLON_SPACE
                   \o LineContent(msg.content) >>

\* the summary_parts one message contributes: none for a SystemMessage
SummaryLine(msg) ==
    CASE msg.type = "system" -> << >>
      [] msg.type = "human"  -> << USER_PREFIX \o LineContent(msg.content) >>
      [] msg.type = "ai"     ->
            LET agent_name == GetattrName(msg, ASSISTANT)
            IN  << Format(agent_name) \o COLON_SPACE \o LineContent(msg.content) >>

RECURSIVE MessageParts(_)
MessageParts(msgs) ==
    IF msgs = << >> THEN << >>
    ELSE SummaryLine(Head(msgs)) \o MessageParts(Tail(msgs))

\* mutant: the old summary is not carried over
PreviousPart_Dropped(old_summary) == << >>

\* the opening part: present only when the old summary is truthy
PreviousPart(old_summary) ==
    IF Truthy(old_summary) THEN << PREVIOUS_PREFIX \o old_summary >> ELSE << >>

\* mutant: the old summary is put after the new lines
SummaryParts_PreviousLast(old_summary, messages_to_summarize) ==
    MessageParts(messages_to_summarize) \o PreviousPart(old_summary)

SummaryParts(old_summary, messages_to_summarize) ==
    PreviousPart(old_summary) \o MessageParts(messages_to_summarize)

\* sep.join(parts)
RECURSIVE Join(_, _)
Join(sep, parts) ==
    IF parts = << >> THEN << >>
    ELSE IF Len(parts) = 1 THEN parts[1]
    ELSE parts[1] \o sep \o Join(sep, Tail(parts))

\* "\n".join(summary_parts) if summary_parts else None
NewSummary(summary_parts) ==
    IF summary_parts # << >> THEN Join(NEWLINE, summary_parts) ELSE None

\* mutant: the early return is taken only below preserve_recent (< for <=)
CreateSummary_ReturnBelow(msgs, old_summary, pr) ==
    IF Len(msgs) < pr
    THEN [messages |-> msgs, summary |-> old_summary, out |-> << >>]
    ELSE LET messages_to_summarize == ToSummarize(msgs, pr)
             recent_messages == RecentMessages(msgs, pr)
             summary_parts == SummaryParts(old_summary, messages_to_summarize)
         IN  [messages |-> recent_messages,
              summary |-> NewSummary(summary_parts),
              out |-> messages_to_summarize]

\* _create_summary(): the manager's messages and summary after the call and
\* the messages the call removed from the window
CreateSummary(msgs, old_summary, pr) ==
    IF Len(msgs) <= pr
    THEN [messages |-> msgs, summary |-> old_summary, out |-> << >>]
    ELSE LET messages_to_summarize == ToSummarize(msgs, pr)
             recent_messages == RecentMessages(msgs, pr)
             summary_parts == SummaryParts(old_summary, messages_to_summarize)
         IN  [messages |-> recent_messages,
              summary |-> NewSummary(summary_parts),
              out |-> messages_to_summarize]

\* ------------------------------------------------------------ add_message
\* mutant: the replacement message is built without the name
Ingest_DropName(message, mcl) ==
    IF Len(message.content) > mcl
    THEN [type |-> message.type,
          content |-> CreateSummaryForContent(message.content),
          name |-> None]
    ELSE message

\* step 1: the message that is stored for the given one
Ingest(message, mcl) ==
    IF Len(message.content) > mcl
    THEN LET truncated_content == CreateSummaryForContent(message.content)
         IN  CASE message.type = "ai" ->
                    AIMessage(truncated_content, GetattrName(message, None))
               [] message.type = "human" ->
                    HumanMessage(truncated_content, GetattrName(message, None))
               [] message.type = "system" ->
                    SystemMessage(truncated_content, None)
    ELSE message

\* step 2 guard: len(self.messages) >= self.max_messages
FoldBeforeAppend(msgs, mm) == Len(msgs) >= mm

\* mutant: off by one, len(self.messages) > self.preserve_recent + 1
FoldAfterAppend_OffByOne(msgs, pr) == Len(msgs) > pr + 1

\* step 4 guard: len(self.messages) > self.preserve_recent
FoldAfterAppend(msgs, pr) == Len(msgs) > pr

\* steps 2 to 4 of add_message for the message that is stored: the fold
\* before the append (pre), the append, the fold after it (post)
AddStored(msgs, cur_summary, stored, mm, pr) ==
    LET s2 == IF FoldBeforeAppend(msgs, mm)
              THEN CreateSummary(msgs, cur_summary, pr)
              ELSE [messages |-> msgs, summary |-> cur_summary, out |-> << >>]
        appended == Append(s2.messages, stored)
        s4 == IF FoldAfterAppend(appended, pr)
              THEN CreateSummary(appended, s2.summary, pr)
              ELSE [messages |-> appended, summary |-> s2.summary, out |-> << >>]
    IN  [messages |-> s4.messages, summary |-> s4.summary, pre |-> s2, post |-> s4]

\* ------------------------------------------------------------- accessors
\* mutant: summary_mode is ignored
GetMessages_IgnoreMode(msgs, cur_summary, summary_mode) ==
    IF ~Truthy(cur_summary)
    THEN msgs
    ELSE << SystemMessage(SUMMARY_HEADER \o cur_summary, None) >> \o msgs

\* get_messages(summary_mode)
GetMessages(msgs, cur_summary, summary_mode) ==
    IF ~summary_mode \/ ~Truthy(cur_summary)
    THEN msgs
    ELSE << SystemMessage(SUMMARY_HEADER \o cur_summary, None) >> \o msgs

\* mutant: without the count > 0 test
GetRecentMessages_NoGuard(msgs, count) == SliceFrom(msgs, 0 - count)

\* get_recent_messages(count)
GetRecentMessages(msgs, count) ==
    IF count > 0 THEN SliceFrom(msgs, 0 - count) ELSE << >>

RECURSIVE TotalContentLength(_)
TotalContentLength(msgs) ==
    IF msgs = << >> THEN 0
    ELSE Len(Head(msgs).content) + TotalContentLength(Tail(msgs))

\* mutant: has_summary tells whether there are messages
GetConversationStats_HasMessages(msgs, cur_summary, mm, pr) ==
    [total_messages |-> Len(msgs),
     has_summary |-> msgs # << >>,
     summary_length |-> IF Truthy(cur_summary) THEN Len(cur_summary) ELSE 0,
     total_content_length |-> TotalContentLength(msgs),
     max_messages_threshold |-> mm,
     preserve_recent_count |-> pr]

\* get_conversation_stats()
GetConversationStats(msgs, cur_summary, mm, pr) ==
    [total_messages |-> Len(msgs),
     has_summary |-> cur_summary # None,
     summary_length |-> IF Truthy(cur_summary) THEN Len(cur_summary) ELSE 0,
     total_content_length |-> TotalContentLength(msgs),
     max_messages_threshold |-> mm,
     preserve_recent_count |-> pr]

\* ----------------------------------------------------------------- inputs
Alphabet == << "a", "b", "c", "d", "e", "f", "g" >>
\* a payload of n characters, its characters cycling through Alphabet
Payload(off, n) == [i \in 1..n |-> Alphabet[((i + off) % Len(Alphabet)) + 1]]

Messages ==
    { SystemMessage(Payload(0, ShortLen), None),
      HumanMessage(Payload(1, MidLen), None),
      HumanMessage(Payload(2, LongLen), None),
      AIMessage(Payload(3, ShortLen), None),
      AIMessage(Payload(4, MidLen), RESEARCHER) }

MaxContentLengths == {100, 550}

\* ------------------------------------------------------------------ state
VARIABLES
    max_messages,        \* self.max_messages
    max_content_length,  \* self.max_content_length
    preserve_recent,     \* self.preserve_recent
    messages,            \* self.messages
    summary,             \* self.summary
    op,                  \* the last call made on the manager
    arg,                 \* its argument (None when it takes none)
    ret,                 \* its return value
    added,               \* history: messages appended since creation / clear
    folded,              \* history: messages folded out since creation / clear
    batch,               \* messages folded out by the last call
    pre_batch,           \* ... of these, by the fold before the append
    pre_changed,         \* the fold before the append changed messages or summary
    prev_summary,        \* summary when the last add_message call started
    prev_messages,       \* messages when the last add_message call started
    nOps,                \* number of add_message / clear calls so far
    calls,               \* per thread: position and locals of its add_message call
    overlapped           \* history: a call started while another was in progress

vars == << max_messages, max_content_length, preserve_recent, messages, summary,
           op, arg, ret, added, folded, batch, pre_batch, pre_changed,
           prev_summary, prev_messages, nOps, calls, overlapped >>

config == << max_messages, max_content_length, preserve_recent >>

\* the threads that call add_message on the one manager
Threads == {"t1", "t2"}

\* a thread that is not inside add_message
Idle ==
    [pc |-> "idle", phase |-> "none", message |-> None,
     messages_to_summarize |-> << >>, recent_messages |-> << >>,
     summary_parts |-> << >>]

\* ConversationManager.__init__ / create_conversation_manager
Init ==
    /\ max_messages \in 1..MaxMaxMessages
    /\ max_content_length \in MaxContentLengths
    /\ preserve_recent \in 0..MaxPreserve
    /\ messages = << >>
    /\ summary = None
    /\ op = "__init__"
    /\ arg = None
    /\ ret = None
    /\ added = << >>
    /\ folded = << >>
    /\ batch = << >>
    /\ pre_batch = << >>
    /\ pre_changed = FALSE
    /\ prev_summary = None
    /\ prev_messages = << >>
    /\ nOps = 0
    /\ calls = [t \in Threads |-> Idle]
    /\ overlapped = FALSE

\* add_message(message)
AddMessage(message) ==
    /\ nOps < MaxOps
    /\ LET stored == Ingest(message, max_content_length)
           r == AddStored(messages, summary, stored, max_messages, preserve_recent)
           s2 == r.pre
           s4 == r.post
       IN  /\ messages' = r.messages
           /\ summary' = r.summary
           /\ added' = Append(added, stored)
           /\ folded' = folded \o s2.out \o s4.out
           /\ batch' = s2.out \o s4.out
           /\ pre_batch' = s2.out
           /\ pre_changed' = (s2.messages # messages \/ s2.summary # summary)
    /\ prev_summary' = summary
    /\ prev_messages' = messages
    /\ op' = "add_message"
    /\ arg' = message
    /\ ret' = None
    /\ nOps' = nOps + 1
    /\ UNCHANGED << config, calls, overlapped >>

\* mutant: the summary is not reset
Clear_KeepSummary ==
    /\ nOps < MaxOps
    /\ messages' = << >>
    /\ op' = "clear"
    /\ arg' = None
    /\ ret' = None
    /\ nOps' = nOps + 1
    /\ UNCHANGED << config, summary, added, folded, batch, pre_batch, pre_changed,
                    prev_summary, prev_messages, calls, overlapped >>

\* clear()
Clear ==
    /\ nOps < MaxOps
    /\ messages' = << >>
    /\ summary' = None
    /\ added' = << >>
    /\ folded' = << >>
    /\ batch' = << >>
    /\ pre_batch' = << >>
    /\ pre_changed' = FALSE
    /\ prev_summary' = None
    /\ prev_messages' = << >>
    /\ op' = "clear"
    /\ arg' = None
    /\ ret' = None
    /\ nOps' = nOps + 1
    /\ UNCHANGED << config, calls, overlapped >>

history == << added, folded, batch, pre_batch, pre_changed, prev_summary,
             prev_messages, nOps, calls, overlapped >>

\* mutant: the summary message is inserted into self.messages itself
CallGetMessages_InPlace(summary_mode) ==
    /\ op' = "get_messages"
    /\ arg' = summary_mode
    /\ ret' = GetMessages(messages, summary, summary_mode)
    /\ messages' = ret'
    /\ UNCHANGED << config, summary, history >>

\* get_messages(summary_mode)
CallGetMessages(summary_mode) ==
    /\ op' = "get_messages"
    /\ arg' = summary_mode
    /\ ret' = GetMessages(messages, summary, summary_mode)
    /\ UNCHANGED << config, messages, summary, history >>

\* get_recent_messages(count)
CallGetRecentMessages(count) ==
    /\ op' = "get_recent_messages"
    /\ arg' = count
    /\ ret' = GetRecentMessages(messages, count)
    /\ UNCHANGED << config, messages, summary, history >>

\* get_conversation_stats()
CallGetConversationStats ==
    /\ op' = "get_conversation_stats"
    /\ arg' = None
    /\ ret' = GetConversationStats(messages, summary, max_messages, preserve_recent)
    /\ UNCHANGED << config, messages, summary, history >>

Next ==
    \/ \E message \in Messages : AddMessage(message)
    \/ Clear
    \/ \E summary_mode \in BOOLEAN : CallGetMessages(summary_mode)
    \/ \E count \in -1..MaxCount : CallGetRecentMessages(count)
    \/ CallGetConversationStats

Spec == Init /\ [][Next]_vars

\* ------------------------------------------- the two string functions
\* A default manager, on which only truncate_content and
\* _create_summary_for_content are called; a call may be given the result
\* of the call before it.
PureInit ==
    /\ max_messages = MAX_MESSAGES_BEFORE_SUMMARY
    /\ max_content_length = MAX_CONTENT_LENGTH
    /\ preserve_recent = SUMMARY_PRESERVE_RECENT
    /\ messages = << >>
    /\ summary = None
    /\ op = "__init__"
    /\ arg = None
    /\ ret = None
    /\ added = << >>
    /\ folded = << >>
    /\ batch = << >>
    /\ pre_batch = << >>
    /\ pre_changed = FALSE
    /\ prev_summary = None
    /\ prev_messages = << >>
    /\ nOps = 0
    /\ calls = [t \in Threads |-> Idle]
    /\ overlapped = FALSE

PureOps == {"truncate_content", "_create_summary_for_content"}

\* the result of the call before, when there is one
PreviousResult == IF op \in PureOps THEN {ret} ELSE {}

TruncateContents == { Payload(0, n) : n \in 0..MaxPureLen } \cup PreviousResult

SummaryContents ==
    { Payload(0, n) : n \in {0, ShortLen, MidLen, SUMMARY_CONTENT_THRESHOLD,
                             SUMMARY_CONTENT_THRESHOLD + 1, LongLen, 2000} }
        \cup PreviousResult

\* truncate_content(content, max_length)
CallTruncateContent(content, max_length) ==
    /\ nOps < MaxPureOps
    /\ op' = "truncate_content"
    /\ arg' = [content |-> content, max_length |-> max_length]
    /\ ret' = truncate_content(content, max_length)
    /\ nOps' = nOps + 1
    /\ UNCHANGED << config, messages, summary, added, folded, batch, pre_batch,
                    pre_changed, prev_summary, prev_messages, calls, overlapped >>

\* manager._create_summary_for_content(content)
CallCreateSummaryForContent(content) ==
    /\ nOps < MaxPureOps
    /\ op' = "_create_summary_for_content"
    /\ arg' = content
    /\ ret' = CreateSummaryForContent(content)
    /\ nOps' = nOps + 1
    /\ UNCHANGED << config, messages, summary, added, folded, batch, pre_batch,
                    pre_changed, prev_summary, prev_messages, calls, overlapped >>

PureNext ==
    \/ \E content \in TruncateContents, max_length \in 0..MaxPureLen :
            CallTruncateContent(content, max_length)
    \/ \E content \in SummaryContents : CallCreateSummaryForContent(content)

PureSpec == PureInit /\ [][PureNext]_vars

\* ------------------------------- add_message calls of two threads, unlocked
\* The manager takes no lock, so the statements of two add_message calls on
\* one instance interleave.  Each action below is one statement of
\* add_message or _create_summary that reads or writes self.messages or
\* self.summary; the statements between two of them work on locals only and
\* are taken together with the following one.

\* the message of the k-th call: Human messages with different payloads
ConcMessage(k) == HumanMessage(Payload(k, ShortLen), None)

\* the bookkeeping the concurrent calls leave alone
serial_history == << arg, ret, folded, batch, pre_batch, pre_changed,
                    prev_summary, prev_messages >>

\* lines 112-113: if len(self.messages) <= self.preserve_recent: return
ReturnsEarly(msgs, pr) == Len(msgs) <= pr

\* _create_summary returns: to line 99 from the call of line 97, out of
\* add_message from the call of line 103
Returned(c) ==
    IF c.phase = "pre"
    THEN [Idle EXCEPT !.pc = "L99", !.message = c.message]
    ELSE Idle

\* add_message is entered; lines 83-93 (step 1) work on the argument only
Line83(t) ==
    /\ calls[t].pc = "idle"
    /\ nOps < MaxConcCalls
    /\ calls' = [calls EXCEPT ![t] =
                    [Idle EXCEPT !.pc = "L96",
                                 !.message = Ingest(ConcMessage(nOps + 1),
                                                    max_content_length)]]
    /\ overlapped' = (overlapped \/ \E u \in Threads \ {t} : calls[u].pc # "idle")
    /\ nOps' = nOps + 1
    /\ op' = "add_message"
    /\ UNCHANGED << config, messages, summary, added, serial_history >>

\* line 96: if len(self.messages) >= self.max_messages
Line96(t) ==
    /\ calls[t].pc = "L96"
    /\ calls' = [calls EXCEPT ![t] =
                    IF FoldBeforeAppend(messages, max_messages)
                    THEN [@ EXCEPT !.pc = "L112", !.phase = "pre"]
                    ELSE [@ EXCEPT !.pc = "L99"]]
    /\ UNCHANGED << config, messages, summary, op, added, nOps, overlapped,
                    serial_history >>

\* line 99: self.messages.append(message)
Line99(t) ==
    /\ calls[t].pc = "L99"
    /\ messages' = Append(messages, calls[t].message)
    /\ added' = Append(added, calls[t].message)
    /\ calls' = [calls EXCEPT ![t].pc = "L102"]
    /\ UNCHANGED << config, summary, op, nOps, overlapped, serial_history >>

\* line 102: if len(self.messages) > self.preserve_recent
Line102(t) ==
    /\ calls[t].pc = "L102"
    /\ calls' = [calls EXCEPT ![t] =
                    IF FoldAfterAppend(messages, preserve_recent)
                    THEN [@ EXCEPT !.pc = "L112", !.phase = "post"]
                    ELSE Idle]
    /\ UNCHANGED << config, messages, summary, op, added, nOps, overlapped,
                    serial_history >>

\* lines 112-113: the early return of _create_summary
Line112(t) ==
    /\ calls[t].pc = "L112"
    /\ calls' = [calls EXCEPT ![t] =
                    IF ReturnsEarly(messages, preserve_recent)
                    THEN Returned(@)
                    ELSE [@ EXCEPT !.pc = "L116"]]
    /\ UNCHANGED << config, messages, summary, op, added, nOps, overlapped,
                    serial_history >>

\* line 116: messages_to_summarize = self.messages[:-self.preserve_recent]
Line116(t) ==
    /\ calls[t].pc = "L116"
    /\ calls' = [calls EXCEPT ![t] =
                    [@ EXCEPT !.pc = "L117",
                              !.messages_to_summarize =
                                  ToSummarize(messages, preserve_recent)]]
    /\ UNCHANGED << config, messages, summary, op, added, nOps, overlapped,
                    serial_history >>

\* line 117: recent_messages = self.messages[-self.preserve_recent:]
Line117(t) ==
    /\ calls[t].pc = "L117"
    /\ calls' = [calls EXCEPT ![t] =
                    [@ EXCEPT !.pc = "L121",
                              !.recent_messages =
                                  RecentMessages(messages, preserve_recent)]]
    /\ UNCHANGED << config, messages, summary, op, added, nOps, overlapped,
                    serial_history >>

\* lines 120-121: summary_parts = []; if self.summary
Line121(t) ==
    /\ calls[t].pc = "L121"
    /\ calls' = [calls EXCEPT ![t] =
                    [@ EXCEPT !.pc = IF Truthy(summary) THEN "L122" ELSE "L137",
                              !.summary_parts = << >>]]
    /\ UNCHANGED << config, messages, summary, op, added, nOps, overlapped,
                    serial_history >>

\* line 122: summary_parts.append(f"Previous conversation summary: {self.summary}")
Line122(t) ==
    /\ calls[t].pc = "L122"
    /\ calls' = [calls EXCEPT ![t] =
                    [@ EXCEPT !.pc = "L137",
                              !.summary_parts =
                                  Append(@, PREVIOUS_PREFIX \o Format(summary))]]
    /\ UNCHANGED << config, messages, summary, op, added, nOps, overlapped,
                    serial_history >>

\* mutant: the summary is joined before the loop has added its lines
Line137_BeforeLoop(t) ==
    /\ calls[t].pc = "L137"
    /\ summary' = NewSummary(calls[t].summary_parts)
    /\ calls' = [calls EXCEPT ![t].pc = "L138"]
    /\ UNCHANGED << config, messages, op, added, nOps, overlapped, serial_history >>

\* lines 125-137: the loop over messages_to_summarize, then
\* self.summary = "\n".join(summary_parts) if summary_parts else None
Line137(t) ==
    /\ calls[t].pc = "L137"
    /\ summary' = NewSummary(calls[t].summary_parts
                                \o MessageParts(calls[t].messages_to_summarize))
    /\ calls' = [calls EXCEPT ![t].pc = "L138"]
    /\ UNCHANGED << config, messages, op, added, nOps, overlapped, serial_history >>

\* line 138: self.messages = recent_messages, and the return of line 140
Line138(t) ==
    /\ calls[t].pc = "L138"
    /\ messages' = calls[t].recent_messages
    /\ calls' = [calls EXCEPT ![t] = Returned(@)]
    /\ UNCHANGED << config, summary, op, added, nOps, overlapped, serial_history >>

ConcNext ==
    \/ \E t \in Threads : Line83(t)
    \/ \E t \in Threads : Line96(t)
    \/ \E t \in Threads : Line99(t)
    \/ \E t \in Threads : Line102(t)
    \/ \E t \in Threads : Line112(t)
    \/ \E t \in Threads : Line116(t)
    \/ \E t \in Threads : Line117(t)
    \/ \E t \in Threads : Line121(t)
    \/ \E t \in Threads : Line122(t)
    \/ \E t \in Threads : Line137(t)
    \/ \E t \in Threads : Line138(t)

ConcSpec == Init /\ [][ConcNext]_vars

\* ------------------------------------------------------------------ claims
Last(s) == s[Len(s)]

\* the message stored by the last add_message call
Stored == Last(added)

IsConversational(m) == m.type \in {"human", "ai"}

AllSystem(msgs) == \A i \in 1..Len(msgs) : msgs[i].type = "system"

\* the line the specification gives a folded-out message: "User: " for a
\* Human message, the display name, or "Assistant" when the message has
\* none, for an Assistant message, then the payload cut to 200 characters
DigestLine(m) ==
    (IF m.type = "human" THEN USER_PREFIX
     ELSE (IF m.name = None THEN ASSISTANT ELSE m.name) \o COLON_SPACE)
        \o (IF Len(m.content) > 200
            THEN SubSeq(m.content, 1, 200) \o ELLIPSIS
            ELSE m.content)

RECURSIVE CountConversational(_)
CountConversational(msgs) ==
    IF msgs = << >> THEN 0
    ELSE (IF IsConversational(Head(msgs)) THEN 1 ELSE 0)
            + CountConversational(Tail(msgs))

\* C1: with preserve_recent >= 1, when add_message has returned the window
\* holds at most preserve_recent messages.
C1_WindowBounded ==
    (op = "add_message" /\ preserve_recent >= 1)
        => Len(messages) <= preserve_recent

C1_Witness ==
    /\ op = "add_message"
    /\ preserve_recent >= 1
    /\ Len(added) > preserve_recent
    /\ Len(messages) = preserve_recent

\* C2: with preserve_recent >= 1, after n add_message calls on a fresh or
\* cleared manager the window is the last min(n, preserve_recent) stored
\* messages, in insertion order.
C2_WindowIsSuffix ==
    preserve_recent >= 1 =>
        LET n == Len(added)
            k == Min(n, preserve_recent)
        IN  /\ Len(messages) = k
            /\ \A i \in 1..k : messages[i] = added[n - k + i]

C2_Witness ==
    /\ preserve_recent = 2
    /\ Len(added) = 3
    /\ added[1] # added[2] /\ added[2] # added[3] /\ added[1] # added[3]
    /\ messages = << added[2], added[3] >>

\* C3: right after add_message stores a message, its text is no longer than
\* max_content_length.
C3_StoredWithinLimit ==
    op = "add_message" => Len(Stored.content) <= max_content_length

\* C4: a Human message longer than max_content_length is stored with a
\* strictly shorter payload that contains "Content summarized".
C4_OversizedHumanSummarized ==
    (op = "add_message" /\ arg.type = "human"
        /\ Len(arg.content) > max_content_length)
        => /\ Len(Stored.content) < Len(arg.content)
           /\ Contains(Stored.content, CONTENT_SUMMARIZED)

\* C5: every Human or Assistant message folded out since the manager was
\* fresh has its line as a substring of summary.
C5_SummaryIsCumulativeDigest ==
    \A i \in 1..Len(folded) :
        IsConversational(folded[i])
            => summary # None /\ Contains(summary, DigestLine(folded[i]))

\* C6 (as claimed): a fold whose batch holds only System messages sets
\* summary to None even when summary was non-null before.
C6_SystemOnlyFoldErasesSummary ==
    (op = "add_message" /\ batch # << >> /\ AllSystem(batch)
        /\ prev_summary # None)
        => summary = None

\* C6 (amended): a fold whose batch holds only System messages leaves a null
\* summary null and turns a non-null summary s into
\* "Previous conversation summary: " + s; it never discards the summary.
C6_SystemOnlyFoldKeepsSummary ==
    (op = "add_message" /\ batch # << >> /\ AllSystem(batch))
        => summary = (IF prev_summary = None THEN None
                      ELSE PREVIOUS_PREFIX \o prev_summary)

C6_Witness ==
    /\ op = "add_message"
    /\ batch # << >>
    /\ AllSystem(batch)
    /\ prev_summary # None
    /\ summary = PREVIOUS_PREFIX \o prev_summary

\* C7: the line of a folded-out Assistant message starts with "Assistant: "
\* when the message has no display name and with its name otherwise, and
\* continues with the 200-character-limited payload.
C7_AssistantLine ==
    (op = "add_message" /\ Len(batch) = 1 /\ batch[1].type = "ai")
        => /\ summary # None
           /\ EndsWith(summary, DigestLine(batch[1]))
           /\ Len(summary) > Len(DigestLine(batch[1]))
                => EndsWith(summary, NEWLINE \o DigestLine(batch[1]))

\* C8: with preserve_recent < max_messages, the first fold after the manager
\* was empty happens only once max_messages messages are stored.
C8_NoFoldBelowMaxMessages ==
    (op = "add_message" /\ preserve_recent < max_messages
        /\ batch # << >> /\ folded = batch)
        => Len(prev_messages) + 1 >= max_messages

\* C9: with preserve_recent >= 1, summary is non-null exactly when a Human
\* or Assistant message has been folded out since creation or the last
\* clear; it is non-null once more than preserve_recent such messages have
\* been added.
C9_SummaryIffConversationalFolded ==
    preserve_recent >= 1 =>
        /\ (summary # None) <=> (\E i \in 1..Len(folded) : IsConversational(folded[i]))
        /\ CountConversational(added) > preserve_recent => summary # None

C9_Witness ==
    /\ preserve_recent >= 1
    /\ summary # None
    /\ Len(folded) = 2
    /\ IsConversational(folded[1])
    /\ ~IsConversational(folded[2])

\* C10: get_messages(summary_mode=True) with a non-null summary returns a
\* System message "Conversation Summary:\n" + summary followed by messages;
\* otherwise it returns messages.
C10_GetMessages ==
    op = "get_messages" =>
        IF arg /\ summary # None
        THEN /\ Len(ret) = Len(messages) + 1
             /\ ret[1].type = "system"
             /\ ret[1].content = SUMMARY_HEADER \o summary
             /\ \A i \in 1..Len(messages) : ret[i + 1] = messages[i]
        ELSE ret = messages

C10_Witness ==
    /\ op = "get_messages"
    /\ arg
    /\ summary # None
    /\ Len(messages) >= 1
    /\ Len(ret) = Len(messages) + 1

\* ---------------------------------------------------------- claims C11..
Accessors == {"get_messages", "get_recent_messages", "get_conversation_stats"}

\* C11: get_messages, get_recent_messages and get_conversation_stats leave
\* messages and summary unchanged, and the same accessor called twice in a
\* row with the same argument returns the same result.
C11_AccessorsPure ==
    [][ op' \in Accessors =>
            /\ messages' = messages
            /\ summary' = summary
            /\ (op = op' /\ arg = arg') => ret' = ret ]_vars

C11_Witness ==
    /\ op = "get_messages"
    /\ arg
    /\ summary # None
    /\ messages # << >>
    /\ ret # messages

\* the window and summary of a freshly constructed manager to which the
\* stored messages are added in order
RECURSIVE Replay(_, _, _)
Replay(stored_msgs, mm, pr) ==
    IF stored_msgs = << >>
    THEN [messages |-> << >>, summary |-> None]
    ELSE LET before == Replay(SubSeq(stored_msgs, 1, Len(stored_msgs) - 1), mm, pr)
             r == AddStored(before.messages, before.summary, Last(stored_msgs), mm, pr)
         IN  [messages |-> r.messages, summary |-> r.summary]

C12_ClearedState ==
    /\ op = "clear" => (messages = << >> /\ summary = None)
    /\ LET fresh == Replay(added, max_messages, preserve_recent)
       IN  messages = fresh.messages /\ summary = fresh.summary

C12_ClearStep ==
    /\ op' = "clear" => config' = config
    /\ (op = "clear" /\ op' = "clear") => (messages' = messages /\ summary' = summary)

\* C12: clear() leaves messages empty and summary None, keeps the three
\* limits, a second clear() changes nothing, and the messages added after a
\* clear() give the window and summary they give on a fresh manager.
C12_Clear == [](C12_ClearedState) /\ [][C12_ClearStep]_vars

C12_Witness ==
    /\ op = "add_message"
    /\ nOps = 3
    /\ Len(added) = 1
    /\ messages = << Stored >>
    /\ summary = None

\* the first n and the last n characters of s (n <= Len(s))
FirstChars(s, n) == SubSeq(s, 1, n)
LastChars(s, n) == SubSeq(s, Len(s) - n + 1, Len(s))

\* C13 (as claimed): truncate_content returns content unchanged if and only
\* if len(content) <= max_length; otherwise the result contains the marker
\* and has content's first and last max_length // 2 characters as its
\* first and last max_length // 2 characters.
C13_TruncateIff ==
    op = "truncate_content" =>
        LET s == arg.content
            h == arg.max_length \div 2
        IN  /\ (ret = s) <=> (Len(s) <= arg.max_length)
            /\ Len(s) > arg.max_length =>
                  /\ Contains(ret, truncation_notice)
                  /\ FirstChars(ret, h) = FirstChars(s, h)
                  /\ LastChars(ret, h) = LastChars(s, h)

\* C13 (amended): truncate_content returns content unchanged if
\* len(content) <= max_length; otherwise the result contains the marker and
\* has content's first and last max_length // 2 characters as its first and
\* last max_length // 2 characters, and it equals content only when content
\* already is max_length // 2 characters, the marker, max_length // 2
\* characters.
C13_Truncate ==
    op = "truncate_content" =>
        LET s == arg.content
            h == arg.max_length \div 2
        IN  /\ Len(s) <= arg.max_length => ret = s
            /\ Len(s) > arg.max_length =>
                  /\ Contains(ret, truncation_notice)
                  /\ FirstChars(ret, h) = FirstChars(s, h)
                  /\ LastChars(ret, h) = LastChars(s, h)
                  /\ (ret = s) <=>
                        /\ h >= 1
                        /\ Len(s) = 2 * h + Len(truncation_notice)
                        /\ SubSeq(s, h + 1, h + Len(truncation_notice)) = truncation_notice

C13_Witness ==
    /\ op = "truncate_content"
    /\ Len(arg.content) > arg.max_length
    /\ arg.max_length >= 2
    /\ ret = arg.content

\* C14: for len(content) > max_length the result of truncate_content has
\* 2 * (max_length // 2) + len(marker) characters, at most max_length +
\* len(marker), whatever len(content) is.
C14_TruncatedLength ==
    (op = "truncate_content" /\ Len(arg.content) > arg.max_length) =>
        /\ Len(ret) = 2 * (arg.max_length \div 2) + Len(truncation_notice)
        /\ Len(ret) <= arg.max_length + Len(truncation_notice)

\* C15: _create_summary_for_content returns content of at most 500
\* characters unchanged; for longer content the result starts with
\* content[:200], ends with content[-200:], contains "Content summarized"
\* and is strictly shorter than content.
C15_SummaryForContent ==
    op = "_create_summary_for_content" =>
        IF Len(arg) <= 500
        THEN ret = arg
        ELSE /\ StartsWith(ret, FirstChars(arg, 200))
             /\ EndsWith(ret, LastChars(arg, 200))
             /\ Contains(ret, CONTENT_SUMMARIZED)
             /\ Len(ret) < Len(arg)

C15_Witness ==
    /\ op = "_create_summary_for_content"
    /\ Len(arg) = 501
    /\ Len(ret) < 501
    /\ Contains(ret, CONTENT_SUMMARIZED)

\* C16: for content that is summarized (2000 characters, say) the result of
\* _create_summary_for_content starts with the first 400 characters of
\* content and ends with its last 400 characters.
C16_Keeps400 ==
    (op = "_create_summary_for_content" /\ Len(arg) > 500) =>
        /\ StartsWith(ret, FirstChars(arg, 400))
        /\ EndsWith(ret, LastChars(arg, 400))

SumOfLengths(msgs) ==
    LET RECURSIVE UpTo(_)
        UpTo(i) == IF i = 0 THEN 0 ELSE UpTo(i - 1) + Len(msgs[i].content)
    IN  UpTo(Len(msgs))

\* C18: get_conversation_stats() reports the number of messages, whether
\* summary is non-null, its length (0 when null), the summed text length of
\* messages and the two configured limits; has_summary is true exactly
\* when summary_length > 0.
C18_ConversationStats ==
    op = "get_conversation_stats" =>
        /\ ret.total_messages = Len(messages)
        /\ ret.has_summary = (summary # None)
        /\ ret.summary_length = (IF summary = None THEN 0 ELSE Len(summary))
        /\ ret.total_content_length = SumOfLengths(messages)
        /\ ret.max_messages_threshold = max_messages
        /\ ret.preserve_recent_count = preserve_recent
        /\ ret.has_summary <=> (ret.summary_length > 0)

C18_Witness ==
    /\ op = "get_conversation_stats"
    /\ summary # None
    /\ Len(messages) = 2
    /\ ret.has_summary
    /\ ret.total_content_length > 0

\* C19: a fold that takes effect while summary is non-null gives a summary
\* that starts with "Previous conversation summary: " and the whole old
\* summary and is strictly longer; an add_message call never shortens a
\* non-null summary.
C19_SummaryGrows ==
    (op = "add_message" /\ prev_summary # None) =>
        /\ summary # None
        /\ Len(summary) >= Len(prev_summary)
        /\ batch # << >> =>
              /\ StartsWith(summary, PREVIOUS_PREFIX \o prev_summary)
              /\ Len(summary) > Len(prev_summary)

C19_Witness ==
    /\ op = "add_message"
    /\ prev_summary # None
    /\ batch # << >>
    /\ IsConversational(batch[1])
    /\ Len(summary) > Len(prev_summary) + Len(PREVIOUS_PREFIX)

Appended == Append(prev_messages, Stored)

\* C21: with preserve_recent >= 1 the fold before the append (step 2) of an
\* add_message call leaves messages and summary unchanged and folds nothing
\* out, whatever max_messages is; the state after the call is the one the
\* fold after the append (step 4) alone gives, applied to the window and
\* summary the call started with.
C21_PreAppendFoldIsNoOp ==
    (op = "add_message" /\ preserve_recent >= 1) =>
        /\ ~pre_changed
        /\ pre_batch = << >>
        /\ IF Len(Appended) > preserve_recent
           THEN /\ messages = SliceFrom(Appended, 0 - preserve_recent)
                /\ batch = SliceTo(Appended, 0 - preserve_recent)
           ELSE /\ messages = Appended
                /\ summary = prev_summary
                /\ batch = << >>

\* the guard of step 2 held and the call folded a message out after the append
C21_Witness ==
    /\ op = "add_message"
    /\ preserve_recent >= 1
    /\ Len(prev_messages) >= max_messages
    /\ prev_summary # None
    /\ ~pre_changed
    /\ batch # << >>
    /\ summary # prev_summary

\* the text after the last line break of s (the whole of s when it has none)
LastLine(s) ==
    LET breaks == {i \in 1..Len(s) : << s[i] >> = NEWLINE}
    IN  IF breaks = {} THEN s
        ELSE SliceFrom(s, CHOOSE i \in breaks : \A j \in breaks : j <= i)

\* C22: with preserve_recent >= 1 an add_message call folds out at most one
\* message, the oldest one of the window it is folded from, and the summary
\* after the call is the one before it (under the "Previous conversation
\* summary: " prefix) followed by at most one new line.
C22_OneMessagePerCall ==
    (op = "add_message" /\ preserve_recent >= 1) =>
        /\ Len(batch) <= 1
        /\ IF batch = << >>
           THEN summary = prev_summary
           ELSE /\ batch[1] = Head(Appended)
                /\ batch[1] = prev_messages[1]
                /\ \/ summary = NewSummary(PreviousPart(prev_summary))
                   \/ summary = NewSummary(PreviousPart(prev_summary)
                                               \o << LastLine(summary) >>)

\* a call that folded exactly one conversational message into a non-null
\* summary
C22_Witness ==
    /\ op = "add_message"
    /\ preserve_recent >= 1
    /\ Len(batch) = 1
    /\ batch[1] = prev_messages[1]
    /\ IsConversational(batch[1])
    /\ prev_summary # None
    /\ summary # NewSummary(PreviousPart(prev_summary))

\* the line of the summary that stands for a folded Human message
HumanLine(m) == USER_PREFIX \o LineContent(m.content)

\* the added Human messages that are neither in messages nor in summary
LostMessages ==
    {i \in 1..Len(added) :
        /\ added[i].type = "human"
        /\ \A j \in 1..Len(messages) : messages[j] # added[i]
        /\ ~(summary # None /\ Contains(summary, HumanLine(added[i])))}

AllIdle == \A t \in Threads : calls[t].pc = "idle"

\* C23: add_message calls on one manager that run one after the other never
\* lose a message: a state in which an added Human message is neither in
\* messages nor represented in summary is reached only by calls that
\* overlapped (and is reached by such calls: the witness).
C23_LostOnlyWhenInterleaved ==
    LostMessages # {} => overlapped

\* both calls have returned and a Human message that was appended is gone
C23_Witness ==
    /\ AllIdle
    /\ preserve_recent >= 1
    /\ overlapped
    /\ LostMessages # {}

====
